---- MODULE Spec2Model ----
(***************************************************************************)
(* Model of proptest-arbitrary-interop (src/src/lib.rs): the value tree    *)
(* ArbValueTree<A> that shrinks a value built by A::arbitrary from a fixed *)
(* byte buffer by rebuilding it from ever shorter prefixes, with a single  *)
(* slot of undo.                                                           *)
(***************************************************************************)
EXTENDS Integers, Sequences, FiniteSets, TLC

\* ---- bounds of the model ------------------------------------------------
MaxLen == 3                 \* longest byte buffer explored
MaxSize == 1                \* largest ArbStrategy.size explored
MaxRejects == 2             \* largest host budget of local rejects explored
ScenarioLen == 20           \* buffer length of the threshold scenario
Threshold == 5              \* shortest prefix that builds in that scenario

Byte  == {0, 1}             \* the u8 values explored
Value == {"a", "b"}         \* the values of type A explored
Error == {"IncorrectFormat", "NotEnoughData"}   \* arbitrary::Error kinds

\* ---- Option<A> and Result<A, arbitrary::Error> ---------------------------
None      == <<>>
Some(v)   == <<v>>
Ok(v)     == <<"Ok", v>>
Err(e)    == <<"Err", e>>
IsOk(r)   == r[1] = "Ok"
Unwrap(r) == r[2]
Outcome   == {Ok(v) : v \in Value} \cup {Err(e) : e \in Error}

\* every byte buffer of at most n bytes
RECURSIVE Buffers(_)
Buffers(n) == IF n = 0 THEN {<<>>}
              ELSE LET S == Buffers(n - 1)
                   IN  S \cup {Append(b, x) : b \in {s \in S : Len(s) = n - 1}, x \in Byte}

\* the slices bytes[0..k] of a buffer
Prefixes(b) == {SubSeq(b, 1, k) : k \in 0..Len(b)}

VARIABLES
  arbitrary,  \* A::arbitrary: the slice handed to Unstructured::new |-> Result
  bytes,      \* ArbValueTree.bytes
  curr,       \* ArbValueTree.curr
  prev,       \* ArbValueTree.prev
  next,       \* ArbValueTree.next
  call,       \* history: the last method called (new, current, simplify, complicate)
  last,       \* history: the last of new / simplify / complicate called
  ret,        \* history: what the last simplify / complicate returned
  got,        \* history: what the last current() returned (None before any)
  succ,       \* history: simplify calls that returned true since the last
              \*          complicate call, or since creation
  base,       \* history: "new" until the first complicate call, then "complicate"
  undo,       \* history: current() just before the last simplify that returned true
  run,        \* history: the run of simplify calls from creation: "active" while
              \*          every call so far was a simplify returning true (current()
              \*          aside), "done" once one returned false, "broken" once a
              \*          complicate interrupted it
  nsimp,      \* history: simplify calls made in that run
  stratSize,  \* ArbStrategy.size
  pc,         \* new_tree: "loop" at the head of its loop, "returned" after return
  result,     \* new_tree: "pending", then "Ok" or the message of the Err returned
  runner,     \* the TestRunner: its count of local rejects and its budget
  draws,      \* history: fill_bytes calls made by new_tree
  rejects,    \* history: reject_local calls made by new_tree
  drawn,      \* history: what A::arbitrary made of the last buffer drawn
  tried,      \* log: the prefix lengths simplify handed to gen_one_with_size
  lastOk,     \* log: the prefix length of the last simplify that returned true
  undoneAt,   \* log: the prefix length of the value the last successful
              \*      complicate threw away (-1: none yet)
  nSimpTrue,  \* log: simplify calls that returned true
  nCompTrue,  \* log: complicate calls that returned true
  fails,      \* the property under test: value |-> whether it fails on it
  dpc,        \* the shrink loop of the host: the call it makes next
  lastFail    \* the shrink loop of the host: the last value the property failed on

tree  == <<bytes, curr, prev, next>>
hist  == <<call, last, ret, got, succ, base, undo, run, nsimp>>
strat == <<stratSize, pc, result, runner, draws, rejects, drawn>>
logv  == <<tried, lastOk, undoneAt, nSimpTrue, nCompTrue>>
drv   == <<fails, dpc, lastFail>>
vars  == <<arbitrary, bytes, curr, prev, next,
           call, last, ret, got, succ, base, undo, run, nsimp,
           stratSize, pc, result, runner, draws, rejects, drawn,
           tried, lastOk, undoneAt, nSimpTrue, nCompTrue,
           fails, dpc, lastFail>>

\* the tracker as the methods see it
Self == [bytes |-> bytes, curr |-> curr, prev |-> prev, next |-> next]

\* ---- the code ------------------------------------------------------------

\* fn gen_one_with_size(bytes, size): A::arbitrary on Unstructured::new(&bytes[0..size])
gen_one_with_size(b, size) == arbitrary[SubSeq(b, 1, size)]

\* new, with the first value built from one byte too few
new_short(b) ==
  LET nxt == Len(b)
      c   == gen_one_with_size(b, IF nxt = 0 THEN 0 ELSE nxt - 1)
  IN  IF IsOk(c)
      THEN Ok([bytes |-> b, prev |-> None, curr |-> Unwrap(c), next |-> nxt])
      ELSE c

\* pub fn new(bytes) -> Result<Self, arbitrary::Error>
new(b) ==
  LET nxt == Len(b)
      c   == gen_one_with_size(b, nxt)
  IN  IF IsOk(c)
      THEN Ok([bytes |-> b, prev |-> None, curr |-> Unwrap(c), next |-> nxt])
      ELSE c

\* fn current(&self) -> A
current(self) == self.curr

\* complicate, forgetting to put prev back into curr
complicate_keep(self) ==
  IF self.prev # None
  THEN [self |-> [self EXCEPT !.prev = None], ret |-> TRUE]
  ELSE [self |-> self, ret |-> FALSE]

\* complicate, reading prev without taking it
complicate_noclear(self) ==
  IF self.prev # None
  THEN [self |-> [self EXCEPT !.curr = self.prev[1]], ret |-> TRUE]
  ELSE [self |-> self, ret |-> FALSE]

\* complicate, swapping curr and prev
complicate_swap(self) ==
  IF self.prev # None
  THEN [self |-> [self EXCEPT !.curr = self.prev[1], !.prev = Some(self.curr)],
        ret  |-> TRUE]
  ELSE [self |-> self, ret |-> FALSE]

\* complicate, also moving the cursor back to the undone size
complicate_revert(self) ==
  IF self.prev # None
  THEN [self |-> [self EXCEPT !.curr = self.prev[1], !.prev = None,
                              !.next = self.next + 1],
        ret  |-> TRUE]
  ELSE [self |-> self, ret |-> FALSE]

\* fn complicate(&mut self) -> bool : the tracker afterwards and the result
complicate(self) ==
  IF self.prev # None
  THEN [self |-> [self EXCEPT !.curr = self.prev[1], !.prev = None], ret |-> TRUE]
  ELSE [self |-> self, ret |-> FALSE]

\* simplify, never moving the cursor when the smaller value was built
simplify_nodec(self) ==
  IF self.next = 0
  THEN [self |-> self, ret |-> FALSE]
  ELSE LET n == self.next - 1
           r == gen_one_with_size(self.bytes, n)
       IN  IF IsOk(r)
           THEN [self |-> [self EXCEPT !.prev = Some(self.curr),
                                       !.curr = Unwrap(r)],
                 ret  |-> TRUE]
           ELSE [self |-> [self EXCEPT !.next = n], ret |-> FALSE]

\* simplify, storing the current value in prev before it knows the outcome
simplify_eager(self) ==
  IF self.next = 0
  THEN [self |-> self, ret |-> FALSE]
  ELSE LET n == self.next - 1
           r == gen_one_with_size(self.bytes, n)
       IN  IF IsOk(r)
           THEN [self |-> [self EXCEPT !.next = n,
                                       !.prev = Some(self.curr),
                                       !.curr = Unwrap(r)],
                 ret  |-> TRUE]
           ELSE [self |-> [self EXCEPT !.next = n, !.prev = Some(self.curr)],
                 ret  |-> FALSE]

\* simplify, building the value before it decrements the cursor
simplify_stale(self) ==
  IF self.next = 0
  THEN [self |-> self, ret |-> FALSE]
  ELSE LET n == self.next - 1
           r == gen_one_with_size(self.bytes, self.next)
       IN  IF IsOk(r)
           THEN [self |-> [self EXCEPT !.next = n,
                                       !.prev = Some(self.curr),
                                       !.curr = Unwrap(r)],
                 ret  |-> TRUE]
           ELSE [self |-> [self EXCEPT !.next = n], ret |-> FALSE]

\* simplify, putting the cursor back when the smaller prefix does not build
simplify_retry(self) ==
  IF self.next = 0
  THEN [self |-> self, ret |-> FALSE]
  ELSE LET n == self.next - 1
           r == gen_one_with_size(self.bytes, n)
       IN  IF IsOk(r)
           THEN [self |-> [self EXCEPT !.next = n,
                                       !.prev = Some(self.curr),
                                       !.curr = Unwrap(r)],
                 ret  |-> TRUE]
           ELSE [self |-> self, ret |-> FALSE]

\* simplify, without the early return: the decrement saturates at zero
simplify_noguard(self) ==
  LET n == IF self.next = 0 THEN 0 ELSE self.next - 1
      r == gen_one_with_size(self.bytes, n)
  IN  IF IsOk(r)
      THEN [self |-> [self EXCEPT !.next = n,
                                  !.prev = Some(self.curr),
                                  !.curr = Unwrap(r)],
            ret  |-> TRUE]
      ELSE [self |-> [self EXCEPT !.next = n], ret |-> FALSE]

\* simplify, giving up for good once a smaller prefix does not build
simplify_giveup(self) ==
  IF self.next = 0
  THEN [self |-> self, ret |-> FALSE]
  ELSE LET n == self.next - 1
           r == gen_one_with_size(self.bytes, n)
       IN  IF IsOk(r)
           THEN [self |-> [self EXCEPT !.next = n,
                                       !.prev = Some(self.curr),
                                       !.curr = Unwrap(r)],
                 ret  |-> TRUE]
           ELSE [self |-> [self EXCEPT !.next = 0], ret |-> FALSE]

\* simplify, without the early return: the decrement goes below zero
simplify_underflow(self) ==
  LET n == self.next - 1
      r == gen_one_with_size(self.bytes, n)
  IN  IF IsOk(r)
      THEN [self |-> [self EXCEPT !.next = n,
                                  !.prev = Some(self.curr),
                                  !.curr = Unwrap(r)],
            ret  |-> TRUE]
      ELSE [self |-> [self EXCEPT !.next = n], ret |-> FALSE]

\* fn simplify(&mut self) -> bool : the tracker afterwards and the result
simplify(self) ==
  IF self.next = 0
  THEN [self |-> self, ret |-> FALSE]
  ELSE LET n == self.next - 1
           r == gen_one_with_size(self.bytes, n)
       IN  IF IsOk(r)
           THEN [self |-> [self EXCEPT !.next = n,
                                       !.prev = Some(self.curr),
                                       !.curr = Unwrap(r)],
                 ret  |-> TRUE]
           ELSE [self |-> [self EXCEPT !.next = n], ret |-> FALSE]

\* TestRunner::reject_local, as new_tree sees it: Err once the runner's budget
\* of local rejects is used up, else Ok with the reject counted
reject_local(r) ==
  IF r.local_rejects >= r.max_local_rejects
  THEN [runner |-> r, res |-> Err("Too many local rejects")]
  ELSE [runner |-> [r EXCEPT !.local_rejects = r.local_rejects + 1],
        res    |-> Ok("unit")]

\* one turn of new_tree's loop, dropping what reject_local returns
new_tree_deaf(b, r) ==
  LET t == new(b)
  IN  IF IsOk(t)
      THEN [return |-> TRUE, res |-> t, runner |-> r, rejected |-> FALSE]
      ELSE IF t = Err("IncorrectFormat")
      THEN [return |-> FALSE, res |-> t, runner |-> reject_local(r).runner,
            rejected |-> TRUE]
      ELSE [return |-> TRUE, res |-> t, runner |-> r, rejected |-> FALSE]

\* one turn of new_tree's loop, rejecting on every error
new_tree_all(b, r) ==
  LET t == new(b)
  IN  IF IsOk(t)
      THEN [return |-> TRUE, res |-> t, runner |-> r, rejected |-> FALSE]
      ELSE LET j == reject_local(r)
           IN  IF IsOk(j.res)
               THEN [return |-> FALSE, res |-> t, runner |-> j.runner,
                     rejected |-> TRUE]
               ELSE [return |-> TRUE, res |-> j.res, runner |-> j.runner,
                     rejected |-> TRUE]

\* one turn of new_tree's loop, when a malformed buffer is fatal too
new_tree_strict(b, r) ==
  LET t == new(b)
  IN  [return |-> TRUE, res |-> t, runner |-> r, rejected |-> FALSE]

\* fn new_tree(&self, runner): one turn of its loop on the buffer b that
\* fill_bytes produced. return: whether new_tree returns in this turn; res:
\* what it returns (else what ArbValueTree::new gave); rejected: whether
\* reject_local was called
new_tree(b, r) ==
  LET t == new(b)
  IN  IF IsOk(t)
      THEN [return |-> TRUE, res |-> t, runner |-> r, rejected |-> FALSE]
      ELSE IF t = Err("IncorrectFormat")
      THEN LET j == reject_local(r)
           IN  IF IsOk(j.res)
               THEN [return |-> FALSE, res |-> t, runner |-> j.runner,
                     rejected |-> TRUE]
               ELSE [return |-> TRUE, res |-> j.res, runner |-> j.runner,
                     rejected |-> TRUE]
      ELSE [return |-> TRUE, res |-> t, runner |-> r, rejected |-> FALSE]

\* ---- the state machine ---------------------------------------------------

Store(self) ==
  /\ bytes' = self.bytes
  /\ curr'  = self.curr
  /\ prev'  = self.prev
  /\ next'  = self.next

\* no call made on the tracker yet
HistInit ==
  /\ call = "new" /\ last = "new" /\ ret = TRUE /\ got = None
  /\ succ = 0 /\ base = "new" /\ undo = None
  /\ run = "active" /\ nsimp = 0

\* the tracker stands alone: no new_tree call is under way
StratIdle ==
  /\ stratSize = Len(bytes) /\ pc = "returned" /\ result = "Ok"
  /\ runner = [local_rejects |-> 0, max_local_rejects |-> 0]
  /\ draws = 0 /\ rejects = 0 /\ drawn = Ok(curr)

\* nothing logged yet
LogIdle ==
  /\ tried = <<>> /\ lastOk = -1 /\ undoneAt = -1
  /\ nSimpTrue = 0 /\ nCompTrue = 0

\* no shrink loop is driving the tracker
DriverIdle ==
  /\ fails = [v \in Value |-> FALSE] /\ dpc = "idle" /\ lastFail = "none"

\* a tracker as ArbValueTree::new returns it, for any buffer and any A
TreeInit ==
  /\ bytes \in Buffers(MaxLen)
  /\ arbitrary \in [Prefixes(bytes) -> Outcome]
  /\ IsOk(new(bytes))
  /\ curr = Unwrap(new(bytes)).curr
  /\ prev = Unwrap(new(bytes)).prev
  /\ next = Unwrap(new(bytes)).next

Init ==
  /\ TreeInit
  /\ HistInit
  /\ StratIdle
  /\ LogIdle
  /\ DriverIdle

Current ==
  /\ got' = Some(current(Self))
  /\ call' = "current"
  /\ UNCHANGED <<arbitrary, tree, last, ret, succ, base, undo, run, nsimp>>
  /\ UNCHANGED <<strat, logv, drv>>

Simplify ==
  LET r == simplify(Self)
  IN  /\ Store(r.self)
      /\ ret' = r.ret
      /\ call' = "simplify" /\ last' = "simplify"
      /\ succ' = IF r.ret THEN succ + 1 ELSE succ
      /\ undo' = IF r.ret THEN Some(curr) ELSE undo
      /\ nsimp' = IF run = "active" THEN nsimp + 1 ELSE nsimp
      /\ run' = IF run = "active" /\ ~r.ret THEN "done" ELSE run
      /\ UNCHANGED <<arbitrary, got, base>>
      /\ UNCHANGED <<strat, logv, drv>>

Complicate ==
  LET r == complicate(Self)
  IN  /\ Store(r.self)
      /\ ret' = r.ret
      /\ call' = "complicate" /\ last' = "complicate"
      /\ succ' = 0 /\ base' = "complicate"
      /\ run' = IF run = "active" THEN "broken" ELSE run
      /\ UNCHANGED <<arbitrary, got, undo, nsimp>>
      /\ UNCHANGED <<strat, logv, drv>>

Next == Current \/ Simplify \/ Complicate

Spec == Init /\ [][Next]_vars

\* ---- ArbStrategy::new_tree ----------------------------------------------

\* the buffers fill_bytes can produce for a strategy of size n
Filled(n) == {b \in Buffers(n) : Len(b) = n}

\* a strategy of any size, any A, any budget of the runner; no tracker yet
InitStrategy ==
  /\ stratSize \in 0..MaxSize
  /\ arbitrary \in [Filled(stratSize) -> Outcome]
  /\ runner \in [local_rejects : {0}, max_local_rejects : 0..MaxRejects]
  /\ pc = "loop" /\ result = "pending"
  /\ draws = 0 /\ rejects = 0 /\ drawn = Err("none")
  /\ bytes = <<>> /\ curr = "none" /\ prev = None /\ next = 0
  /\ HistInit
  /\ LogIdle
  /\ DriverIdle

\* one turn of the loop of new_tree: draw, build, then return, reject or fail
NewTree ==
  /\ pc = "loop"
  /\ \E b \in Filled(stratSize) :
       LET a == new_tree(b, runner)
       IN  /\ draws' = draws + 1
           /\ drawn' = new(b)
           /\ rejects' = IF a.rejected THEN rejects + 1 ELSE rejects
           /\ runner' = a.runner
           /\ pc' = IF a.return THEN "returned" ELSE "loop"
           /\ result' = IF ~a.return THEN "pending"
                         ELSE IF IsOk(a.res) THEN "Ok" ELSE Unwrap(a.res)
           /\ IF a.return /\ IsOk(a.res)
              THEN Store(Unwrap(a.res))
              ELSE UNCHANGED tree
  /\ UNCHANGED <<arbitrary, stratSize, hist, logv, drv>>

NextStrategy == NewTree

SpecStrategy == InitStrategy /\ [][NextStrategy]_vars

\* new_tree is a plain synchronous call: once entered, its loop keeps running
FairSpecStrategy == SpecStrategy /\ WF_vars(NewTree)

\* ---- the threshold scenario ----------------------------------------------

\* a tracker on a buffer of ScenarioLen bytes, for an A that builds from every
\* prefix of at least Threshold bytes and from no shorter one
InitThreshold ==
  /\ \E x \in Byte : bytes = [i \in 1..ScenarioLen |-> x]
  /\ \E e \in [0..(Threshold - 1) -> Error], f \in [0..1 -> Value] :
       arbitrary = [p \in Prefixes(bytes) |->
                      IF Len(p) < Threshold THEN Err(e[Len(p)])
                                            ELSE Ok(f[Len(p) % 2])]
  /\ IsOk(new(bytes))
  /\ curr = Unwrap(new(bytes)).curr
  /\ prev = Unwrap(new(bytes)).prev
  /\ next = Unwrap(new(bytes)).next
  /\ HistInit
  /\ StratIdle
  /\ LogIdle
  /\ DriverIdle

\* the scenario calls simplify and nothing else
NextThreshold == Simplify

SpecThreshold == InitThreshold /\ [][NextThreshold]_vars

\* ---- simplify and complicate in any order, with a log --------------------

LogSimplify ==
  LET r == simplify(Self)
  IN  /\ Store(r.self)
      /\ ret' = r.ret
      /\ call' = "simplify"
      /\ tried' = IF next = 0 THEN tried ELSE Append(tried, r.self.next)
      /\ lastOk' = IF r.ret THEN r.self.next ELSE lastOk
      /\ nSimpTrue' = IF r.ret THEN nSimpTrue + 1 ELSE nSimpTrue
      /\ UNCHANGED <<arbitrary, last, got, succ, base, undo, run, nsimp>>
      /\ UNCHANGED <<undoneAt, nCompTrue, strat, drv>>

LogComplicate ==
  LET r == complicate(Self)
  IN  /\ Store(r.self)
      /\ ret' = r.ret
      /\ call' = "complicate"
      /\ undoneAt' = IF r.ret THEN lastOk ELSE undoneAt
      /\ nCompTrue' = IF r.ret THEN nCompTrue + 1 ELSE nCompTrue
      /\ UNCHANGED <<arbitrary, last, got, succ, base, undo, run, nsimp>>
      /\ UNCHANGED <<tried, lastOk, nSimpTrue, strat, drv>>

NextLog == LogSimplify \/ LogComplicate

SpecLog == Init /\ [][NextLog]_vars

\* a driver that goes on calling for as long as a call changes anything
FairSpecLog == SpecLog /\ WF_vars(NextLog)

\* ---- the shrink loop of the host -----------------------------------------

\* the first value fails the property, whatever the property is
InitDriver ==
  /\ TreeInit
  /\ HistInit
  /\ StratIdle
  /\ LogIdle
  /\ fails \in [Value -> BOOLEAN]
  /\ fails[current(Self)]
  /\ lastFail = current(Self)
  /\ dpc = "simplify"

\* current() failed the property: simplify, and stop if it returns false
DriverSimplify ==
  /\ dpc = "simplify"
  /\ LET r == simplify(Self)
     IN  /\ Store(r.self)
         /\ ret' = r.ret
         /\ call' = "simplify"
         /\ dpc' = IF r.ret THEN "test" ELSE "stopped"
  /\ UNCHANGED <<arbitrary, last, got, succ, base, undo, run, nsimp>>
  /\ UNCHANGED <<fails, lastFail, strat, logv>>

\* run the property on current()
DriverTest ==
  /\ dpc = "test"
  /\ LET v == current(Self)
     IN  /\ got' = Some(v)
         /\ lastFail' = IF fails[v] THEN v ELSE lastFail
         /\ dpc' = IF fails[v] THEN "simplify" ELSE "complicate"
  /\ call' = "current"
  /\ UNCHANGED <<arbitrary, tree, last, ret, succ, base, undo, run, nsimp>>
  /\ UNCHANGED <<fails, strat, logv>>

\* the simplified value passed: complicate once, and stop if it returns false
DriverComplicate ==
  /\ dpc = "complicate"
  /\ LET r == complicate(Self)
     IN  /\ Store(r.self)
         /\ ret' = r.ret
         /\ call' = "complicate"
         /\ dpc' = IF r.ret THEN "simplify" ELSE "stopped"
  /\ UNCHANGED <<arbitrary, last, got, succ, base, undo, run, nsimp>>
  /\ UNCHANGED <<fails, lastFail, strat, logv>>

NextDriver == DriverSimplify \/ DriverTest \/ DriverComplicate

SpecDriver == InitDriver /\ [][NextDriver]_vars

TypeOK ==
  /\ bytes \in Buffers(MaxLen)
  /\ curr \in Value
  /\ prev \in {None} \cup {Some(v) : v \in Value}
  /\ next \in 0..Len(bytes)
  /\ call \in {"new", "current", "simplify", "complicate"}
  /\ last \in {"new", "simplify", "complicate"}
  /\ ret \in BOOLEAN

\* ---- the claims ----------------------------------------------------------

\* C1: single-step undo. When complicate is called and some simplify has
\* returned true with no complicate call since (failed simplify calls and
\* current() calls may lie between), complicate returns true and current()
\* is afterwards the value current() gave just before the last simplify that
\* returned true.
C1_SingleStepUndo ==
  [][(call' = "complicate" /\ succ > 0)
       => (ret' = TRUE /\ undo # None /\ current(Self)' = undo[1])]_vars

\* a complicate has just undone a simplify that had changed the value
C1_Witness ==
  /\ call = "complicate" /\ ret = TRUE
  /\ undo # None /\ curr = undo[1]
  /\ \E k \in 0..(Len(bytes) - 1) : gen_one_with_size(bytes, k) = Ok(CHOOSE v \in Value : v # curr)
  /\ next < Len(bytes)

\* C2 as stated: the run of simplify calls from creation, up to and including
\* the first that returns false, has at most bytes.len() calls.
C2_Original == run = "done" => nsimp <= Len(bytes)

\* C2, amended: that run has at most bytes.len() + 1 calls, of which at most
\* bytes.len() return true.
C2_Termination ==
  /\ nsimp <= Len(bytes) + 1
  /\ run = "active" => nsimp <= Len(bytes)

\* the longest run: every prefix builds, and the call at next = 0 ends it
C2_Witness == run = "done" /\ Len(bytes) > 0 /\ nsimp = Len(bytes) + 1

\* C3 as stated: prev is present exactly when exactly one simplify has
\* returned true since the last complicate call or since creation.
C3_Original == (prev # None) <=> (succ = 1)

\* C3, amended: prev is present exactly when at least one simplify has
\* returned true since the last complicate call or since creation.
C3_PrevPresent == (prev # None) <=> (succ >= 1)

\* two simplifications in a row, no undo between them, and prev is present
C3_Witness == prev # None /\ succ >= 2

\* C4 as stated: if prev is present, the last simplify or complicate call was
\* a simplify that returned true (current() calls are not counted).
C4_Original == (prev # None) => (last = "simplify" /\ ret = TRUE)

\* C4, amended: if prev is present, the last simplify or complicate call was a
\* simplify (which may have returned false), and some simplify has returned
\* true with no complicate call after it.
C4_PrevImplies == (prev # None) => (last = "simplify" /\ succ > 0)

\* prev is present although the last simplify returned false
C4_Witness == prev # None /\ last = "simplify" /\ ret = FALSE /\ call = "simplify"

\* C5: when complicate is called after an earlier complicate call with no
\* simplify having returned true in between, it returns false and leaves
\* curr, prev and next as they were.
C5_SecondComplicate ==
  [][(call' = "complicate" /\ base = "complicate" /\ succ = 0)
       => (ret' = FALSE /\ current(Self)' = current(Self)
           /\ UNCHANGED <<curr, prev, next>>)]_vars

\* a complicate has returned false on a tracker that had been simplified
C5_Witness == call = "complicate" /\ ret = FALSE /\ undo # None /\ undo[1] = curr

\* C6: simplify called with next > 0 where the prefix of length next - 1
\* builds returns true, sets curr to the value built from that prefix, sets
\* prev to the value curr held before (whatever prev held), and decrements next.
C6_SimplifySuccess ==
  [][(call' = "simplify" /\ next > 0 /\ IsOk(gen_one_with_size(bytes, next - 1)))
       => /\ ret' = TRUE
          /\ curr' = Unwrap(gen_one_with_size(bytes, next - 1))
          /\ prev' = Some(curr)
          /\ next' = next - 1]_vars

\* a second successful simplify has overwritten a different earlier prev
C6_Witness ==
  /\ call = "simplify" /\ ret = TRUE /\ succ >= 2
  /\ prev # None /\ prev[1] # curr
  /\ curr = Unwrap(gen_one_with_size(bytes, next))

\* C7: simplify called with next > 0 where the prefix of length next - 1 does
\* not build, whatever the error, returns false, leaves curr and prev alone and
\* leaves next decremented.
C7_SimplifyFailure ==
  [][(call' = "simplify" /\ next > 0
        /\ \E e \in Error : gen_one_with_size(bytes, next - 1) = Err(e))
       => /\ ret' = FALSE
          /\ UNCHANGED <<curr, prev>>
          /\ next' = next - 1]_vars

\* a simplify has failed on an error other than IncorrectFormat, prev in place
C7_Witness ==
  /\ call = "simplify" /\ ret = FALSE /\ next > 0
  /\ gen_one_with_size(bytes, next) = Err("NotEnoughData")
  /\ prev # None

\* C8: from a state with next = 0, next stays 0 and every simplify call
\* returns false and leaves curr, prev and next as they were.
C8_Exhausted ==
  [][(next = 0)
       => /\ next' = 0
          /\ (call' = "simplify" => (ret' = FALSE /\ UNCHANGED <<curr, prev, next>>))]_vars

\* simplify has been called at next = 0 on a buffer whose empty prefix builds
C8_Witness ==
  /\ call = "simplify" /\ ret = FALSE /\ next = 0
  /\ IsOk(gen_one_with_size(bytes, 0))
  /\ prev # None

\* C9: next starts at bytes.len(), no call increases it, and every simplify
\* call made with next > 0 decreases it by exactly one.
C9_Monotonic ==
  /\ next = Len(bytes)
  /\ [][/\ next' <= next
        /\ (call' = "simplify" /\ next > 0) => next' = next - 1]_vars

\* simplify, complicate and current have all run and next is below its start
C9_Witness ==
  /\ call = "current" /\ last = "complicate" /\ ret = TRUE
  /\ next < Len(bytes)

\* C10: curr is always the value built from some prefix of bytes that builds
\* (the whole buffer right after creation), and current() returns curr and
\* changes no field.
C10_CurrBuilt ==
  /\ [](/\ \E k \in 0..Len(bytes) : gen_one_with_size(bytes, k) = Ok(curr)
        /\ call = "new" => gen_one_with_size(bytes, Len(bytes)) = Ok(curr))
  /\ [][call' = "current" => (got' = Some(curr) /\ UNCHANGED tree)]_vars

\* current() has returned a value built from a proper prefix
C10_Witness ==
  /\ call = "current" /\ got = Some(curr)
  /\ gen_one_with_size(bytes, Len(bytes)) # Ok(curr)
  /\ last = "simplify"

\* C11: in new_tree, a turn whose buffer A::arbitrary finds malformed
\* (IncorrectFormat) calls reject_local exactly once and never returns a
\* tracker: if reject_local succeeds the loop goes round again to draw fresh
\* bytes, and if it fails new_tree returns that failure. While new_tree loops,
\* every buffer drawn so far was rejected once.
C11_MalformedRejected ==
  /\ [](pc = "loop" => rejects = draws)
  /\ [][(draws' = draws + 1 /\ drawn' = Err("IncorrectFormat"))
          => /\ rejects' = rejects + 1
             /\ result' # "Ok"
             /\ UNCHANGED tree
             /\ IF runner.local_rejects < runner.max_local_rejects
                THEN /\ pc' = "loop" /\ result' = "pending"
                     /\ runner'.local_rejects = runner.local_rejects + 1
                ELSE /\ pc' = "returned"
                     /\ result' = "Too many local rejects"]_vars

\* a malformed buffer was rejected and the next buffer drawn gave the tracker
C11_Witness ==
  /\ pc = "returned" /\ result = "Ok"
  /\ rejects = 1 /\ draws = 2
  /\ \E b \in Filled(stratSize) : arbitrary[b] = Err("IncorrectFormat")
  /\ arbitrary[bytes] = Ok(curr)

\* C12: in new_tree, a turn whose buffer makes A::arbitrary report any error
\* other than IncorrectFormat returns that error at once: no reject_local
\* call, the runner untouched, no tracker, and no byte drawn afterwards.
C12_OtherErrorFatal ==
  [][/\ (draws' = draws + 1 /\ ~IsOk(drawn') /\ drawn' # Err("IncorrectFormat"))
         => /\ pc' = "returned"
            /\ result' = Unwrap(drawn')
            /\ rejects' = rejects
            /\ runner' = runner
            /\ UNCHANGED tree
     /\ pc = "returned" => draws' = draws]_vars

\* new_tree returned the other error on its second buffer, after one reject
C12_Witness ==
  /\ pc = "returned" /\ result = "NotEnoughData"
  /\ drawn = Err("NotEnoughData")
  /\ draws = 2 /\ rejects = 1

\* C13: new_tree returns, a tracker or a failure, after at most
\* max_local_rejects + 1 buffers drawn, whatever A::arbitrary does and
\* whatever bytes are drawn.
C13_NewTreeReturns ==
  /\ [](draws <= runner.max_local_rejects + 1)
  /\ [](pc = "returned" => result # "pending")
  /\ <>(pc = "returned")

\* the longest call: every buffer malformed until the runner's budget is spent
C13_Witness ==
  /\ pc = "returned" /\ result = "Too many local rejects"
  /\ runner.max_local_rejects = MaxRejects
  /\ draws = MaxRejects + 1

\* C14: threshold scenario, calling only simplify from creation. The calls
\* that build the prefixes ScenarioLen - 1 down to Threshold return true; the
\* calls for the prefixes Threshold - 1 down to 0 return false, change neither
\* curr nor prev and still decrement next; at next = 0 a call returns false and
\* changes nothing. From next = Threshold on, current() is the value built
\* from the prefix of Threshold bytes.
C14_ThresholdScenario ==
  /\ [](next <= Threshold => current(Self) = Unwrap(gen_one_with_size(bytes, Threshold)))
  /\ [](run = "done" => nsimp = ScenarioLen - Threshold + 1)
  /\ [][call' = "simplify"
          => /\ (next > Threshold)
                  => /\ ret' = TRUE /\ next' = next - 1
                     /\ curr' = Unwrap(gen_one_with_size(bytes, next - 1))
             /\ (next > 0 /\ next <= Threshold)
                  => /\ ret' = FALSE /\ next' = next - 1
                     /\ UNCHANGED <<curr, prev>>
             /\ (next = 0)
                  => /\ ret' = FALSE
                     /\ UNCHANGED tree]_vars

\* the scenario has run to its end: next = 0 and the value is the one built
\* from Threshold bytes, which differs from the one before it
C14_Witness ==
  /\ Len(bytes) = ScenarioLen /\ next = 0
  /\ call = "simplify" /\ ret = FALSE
  /\ curr = Unwrap(gen_one_with_size(bytes, Threshold))
  /\ prev = Some(Unwrap(gen_one_with_size(bytes, Threshold + 1)))
  /\ prev[1] # curr
  /\ gen_one_with_size(bytes, 0) = Err("NotEnoughData")

\* C15: next always lies in 0..bytes.len(), it changes only by a decrement
\* from a positive value, and so every prefix length handed to
\* gen_one_with_size is a length of a prefix of bytes.
C15_NextInRange ==
  /\ [](next \in 0..Len(bytes))
  /\ [](SubSeq(bytes, 1, next) \in DOMAIN arbitrary)
  /\ [][next' # next => (next > 0 /\ next' = next - 1 /\ call' = "simplify")]_vars

\* simplify has been called all the way down a longest buffer and once more
C15_Witness ==
  /\ Len(bytes) = MaxLen /\ next = 0
  /\ call = "simplify" /\ ret = FALSE
  /\ run = "done" /\ nsimp = MaxLen + 1

\* C16: complicate never changes next or bytes. With prev present it returns
\* true, moves prev into curr and leaves prev empty; with prev absent it
\* returns false and changes no field.
C16_ComplicateFrame ==
  [][call' = "complicate"
       => /\ next' = next /\ bytes' = bytes
          /\ IF prev # None
             THEN ret' = TRUE /\ prev' = None /\ curr' = prev[1]
             ELSE ret' = FALSE /\ UNCHANGED tree]_vars

\* an undo gave back the first value while next stayed below bytes.len()
C16_Witness ==
  /\ call = "complicate" /\ ret = TRUE /\ prev = None
  /\ next < Len(bytes)
  /\ gen_one_with_size(bytes, next) # Ok(curr)
  /\ gen_one_with_size(bytes, Len(bytes)) = Ok(curr)

\* C17: over any sequence of simplify and complicate calls, the prefix
\* lengths simplify hands to the constructor are strictly decreasing and all
\* below bytes.len(), so none is tried twice; and once complicate has thrown
\* away a value built at length k, every later simplify tries a length below k.
C17_StrictlyDecreasing ==
  /\ [](\A i \in DOMAIN tried : tried[i] >= 0 /\ tried[i] < Len(bytes))
  /\ [](\A i, j \in DOMAIN tried : i < j => tried[i] > tried[j])
  /\ [][(Len(tried') > Len(tried) /\ undoneAt # -1)
          => tried'[Len(tried')] < undoneAt]_vars

\* after an undo, a later simplify has built a value from a shorter prefix
C17_Witness ==
  /\ undoneAt # -1 /\ call = "simplify" /\ ret = TRUE
  /\ lastOk < undoneAt /\ lastOk = next
  /\ Len(tried) >= 2

\* C18: in any interleaving of simplify and complicate calls, at most
\* bytes.len() simplify calls return true and the complicate calls that have
\* returned true never outnumber the simplify calls that have; a driver that
\* keeps calling ends up receiving false from every call.
C18_BoundedTrue ==
  /\ [](nSimpTrue <= Len(bytes))
  /\ [](nCompTrue <= nSimpTrue)
  /\ <>[](ret = FALSE)

\* every prefix was built and every one of those simplifications undone
C18_Witness ==
  /\ Len(bytes) = MaxLen /\ nSimpTrue = MaxLen /\ nCompTrue = MaxLen
  /\ ret = FALSE /\ next = 0

\* C19: under the shrink loop of the host, complicate always returns true,
\* after it current() is the last value the property failed on, and the value
\* current() holds when the loop stops fails the property.
C19_ShrinkLoop ==
  /\ [](dpc \in {"simplify", "stopped"} => (fails[current(Self)] /\ current(Self) = lastFail))
  /\ [][dpc = "complicate"
          => /\ ret' = TRUE
             /\ dpc' # "stopped"
             /\ current(Self)' = lastFail
             /\ fails[current(Self)']]_vars

\* the loop stopped right after an undo: the last value tested passed, and
\* current() is the failing value the undo gave back
C19_Witness ==
  /\ dpc = "stopped" /\ call = "simplify" /\ ret = FALSE
  /\ prev = None /\ got # None /\ ~fails[got[1]]
  /\ curr = lastFail /\ fails[curr]
  /\ next < Len(bytes) - 1
====
